---- MODULE Spec2Model ----
(***************************************************************************)
(* Model of advanced-vector/vector.h: RawMemory<T> (a block of raw cells)  *)
(* and Vector<T> (a RawMemory plus the count of live elements).            *)
(*                                                                         *)
(* Every public operation is one action.  The body of an operation is an   *)
(* operator over a "machine" record m that carries the heap, the vectors,  *)
(* the fault-injection counters and the bookkeeping of one call.  A        *)
(* primitive does nothing once m.thrown is set (the exception is in        *)
(* flight); destructors of locals and the clean-up inside the standard     *)
(* algorithms are applied explicitly on that path.                         *)
(***************************************************************************)
EXTENDS Integers, Sequences, FiniteSets, TLC

\* ---------------------------------------------------------------- bounds
MaxCells == 4       \* cells a vector may hold when the client uses one vector
MaxPair == 3        \* cells two vectors may hold together when it uses two
MaxShared == 2      \* the same when it injects every fault into every operation
MaxVal == 1         \* the recording client passes 1 and MaxVal + 1 (0 is the default value)
MaxFail == 5        \* the injected failure hits the 1st..MaxFail-th call of T
MaxPushes == 6      \* the client counts its pushes up to MaxPushes
NumBlocks == 3      \* block addresses: one per vector and one temporary

\* ------------------------------------------------------------- constants
nullptr == 0        \* RawMemory::buffer_ of an object that holds no block
Raw == -1           \* a cell that holds no constructed T
Hollow == -2        \* a constructed T that has been moved from
Default == 0        \* the value of a value-initialised T

Vecs == {"a", "b"}
Locals == {"tmp", "new_data"}   \* the local objects of the operations
Objects == Vecs \cup Locals
Blocks == 1..NumBlocks
\* the element types, told apart by what Vector asks of T: the two traits the
\* if-constexpr conditions read, and whether T declares a move constructor
\* and a move assignment (std::move of a T that declares none selects the
\* copy operation).  A T that cannot be copied has a move constructor, or
\* Vector could not relocate it; its assignment may be either.
TKinds ==
    {k \in [is_copy_constructible : BOOLEAN,
            is_nothrow_move_constructible : BOOLEAN,
            move_ctor : BOOLEAN,
            move_assign : BOOLEAN] :
        ~k.is_copy_constructible => k.move_ctor}

VARIABLES
    tkind,      \* the traits of the element type T (fixed per behaviour)
    pair,       \* the client uses two vectors, a and b (else only a)
    inject,     \* the faults the client injects into the element operations
    vec,        \* vec[v] = [alive, buf, cap, size]: Vector::data_ and size_
    heap,       \* heap[b] = [alloc, slots]: the raw blocks
    old,        \* vec and heap as they were when the last call started
    last,       \* the last call: name, arguments, outcome and bookkeeping
    hist        \* what the client remembers of the calls it has made so far

vars == <<tkind, pair, inject, vec, heap, old, last, hist>>

\* Where no failure of T is injected into Reserve, Resize, Erase and the
\* Emplace family, every element a move has left moved-from is overwritten or
\* destroyed before the call returns, and the traits show only in whether T
\* can be copied: one type stands for each of the two cases (its copy
\* constructor may throw; one that cannot is the case of no failure).
QuietKinds ==
    {k \in TKinds : k.is_nothrow_move_constructible /\ k.move_ctor /\ k.move_assign}

\* What becomes of a block depends on T only through where a call can throw:
\* T can be copied or not, and its relocation can throw or not.  One type
\* stands for each of the four cases.
BlockKinds == {k \in TKinds : k.move_ctor /\ k.move_assign}

\* ----------------------------------------------------------- type traits
NothrowMoveCtor == tkind.is_nothrow_move_constructible
CopyCtor == tkind.is_copy_constructible
\* T(T&&) and T& operator=(T&&) are declared
MoveCtor == tkind.move_ctor
MoveAssign == tkind.move_assign
\* T(const T&) cannot throw: it is what is_nothrow_move_constructible_v
\* tested, T having no move constructor; the copy constructor of a T that
\* has one may throw
CopyCtorNothrow == CopyCtor /\ ~MoveCtor /\ NothrowMoveCtor
\* the if-constexpr condition of Reserve, Resize and both Emplace helpers
UseMove == NothrowMoveCtor \/ ~CopyCtor

\* ------------------------------------------------------------ primitives
Live(x) == x # Raw

NoSlots == [i \in 0..(-1) |-> Raw]
FreeBlock == [alloc |-> FALSE, slots |-> NoSlots]
DeadVec == [alive |-> FALSE, buf |-> nullptr, cap |-> 0, size |-> 0]
\* an iterator is a block address and an offset; NoRet: the call returns none
NoRet == [buf |-> nullptr, idx |-> -1]

LiveCount(slots) == Cardinality({i \in DOMAIN slots : Live(slots[i])})

\* one call of T that may fail: the failAt-th such call of the operation throws
Tick(m, kind) ==
    IF m.calls + 1 = m.failAt
    THEN [m EXCEPT !.calls = @ + 1, !.thrown = TRUE, !.fail = kind]
    ELSE [m EXCEPT !.calls = @ + 1]

\* RawMemory::Allocate: nullptr for n = 0, else a fresh block of n raw cells
Allocate(m, n) ==
    IF m.thrown THEN m
    ELSE IF n = 0 THEN [m EXCEPT !.res = nullptr]
    ELSE IF m.oom THEN [m EXCEPT !.thrown = TRUE, !.fail = "alloc"]
    ELSE LET b == CHOOSE x \in Blocks :
                     /\ ~m.heap[x].alloc
                     /\ \A y \in Blocks : ~m.heap[y].alloc => x <= y
         IN [m EXCEPT !.res = b, !.allocs = @ + 1,
                      !.heap[b] = [alloc |-> TRUE, slots |-> [i \in 0..(n - 1) |-> Raw]]]

\* RawMemory::Deallocate: operator delete runs no destructor
Deallocate(m, buf) ==
    IF buf = nullptr THEN m
    ELSE IF ~m.heap[buf].alloc THEN [m EXCEPT !.dblFree = @ + 1]
    ELSE [m EXCEPT !.leaked = @ + LiveCount(m.heap[buf].slots),
                   !.frees = @ + 1,
                   !.heap[buf] = FreeBlock]

\* placement new of a T with value x in cell i of block b, once the
\* constructor has run (nothing happens when it threw)
PutNew(m, b, i, x) ==
    IF m.thrown THEN m
    ELSE [m EXCEPT !.leaked = @ + (IF Live(m.heap[b].slots[i]) THEN 1 ELSE 0),
                   !.heap[b].slots[i] = x]

\* the same for an element relocated from another cell
PutReloc(m, b, i, x) ==
    IF m.thrown THEN m
    ELSE [m EXCEPT !.leaked = @ + (IF Live(m.heap[b].slots[i]) THEN 1 ELSE 0),
                   !.relocs = @ + 1,
                   !.heap[b].slots[i] = x]

\* the moved-from state of the source of a move
Hollowed(m, b, i) ==
    IF m.thrown THEN m ELSE [m EXCEPT !.heap[b].slots[i] = Hollow]

\* the arguments of an Emplace, Insert, PushBack or EmplaceBack: constructor
\* arguments of the caller's (Args&&...), a T of the caller's passed as T&&
\* or as const T&, or a const T& to cell idx of block buf
ByValue(x) == [by |-> "args", val |-> x, buf |-> nullptr, idx |-> -1]
ByMove(x) == [by |-> "move", val |-> x, buf |-> nullptr, idx |-> -1]
ByCopy(x) == [by |-> "copy", val |-> x, buf |-> nullptr, idx |-> -1]
ByRef(b, j) == [by |-> "copy", val |-> -1, buf |-> b, idx |-> j]
\* what a constructor that runs on machine m reads through the arguments
ArgVal(m, args) ==
    IF args.buf # nullptr THEN m.heap[args.buf].slots[args.idx] ELSE args.val
\* T(args...) may throw: a constructor from the caller's arguments always,
\* the one selected by a T&& or a const T& unless it is noexcept
ArgsThrow(args) ==
    IF args.by = "move" THEN ~NothrowMoveCtor
    ELSE IF args.by = "copy" THEN ~CopyCtorNothrow
    ELSE TRUE

\* new (b + i) T(args...): the new element built from the call's arguments
ConstructAt(m, b, i, args) ==
    IF m.thrown THEN m
    ELSE PutNew(IF ArgsThrow(args) THEN Tick(m, "ctor_new") ELSE m, b, i, ArgVal(m, args))

\* copy construction of cell (db, di) from cell (sb, si)
CopyConstructAt(m, sb, si, db, di) ==
    IF m.thrown THEN m
    ELSE PutReloc(IF CopyCtorNothrow THEN m ELSE Tick(m, "ctor_reloc"),
                  db, di, m.heap[sb].slots[si])

\* construction of cell (db, di) from std::move(cell (sb, si)): the move
\* constructor, which leaves the source moved-from, or the copy constructor
\* of a T that declares none
MoveConstructAt(m, sb, si, db, di) ==
    IF m.thrown THEN m
    ELSE IF ~MoveCtor THEN CopyConstructAt(m, sb, si, db, di)
    ELSE Hollowed(PutReloc(IF NothrowMoveCtor THEN m ELSE Tick(m, "ctor_reloc"),
                           db, di, m.heap[sb].slots[si]),
                  sb, si)

\* value initialisation of cell (b, i)
ValueConstructAt(m, b, i) ==
    IF m.thrown THEN m ELSE PutNew(Tick(m, "ctor_default"), b, i, Default)

\* std::destroy_at: the destructor of the T in cell (b, i)
DestroyAt(m, b, i) ==
    IF i \notin DOMAIN m.heap[b].slots \/ ~Live(m.heap[b].slots[i])
    THEN [m EXCEPT !.badDestroy = @ + 1]
    ELSE [m EXCEPT !.destroyed = @ + 1, !.heap[b].slots[i] = Raw]

\* the effect of an assignment that has not thrown: cell (b, i) takes value x
Assigned(m, b, i, x) ==
    IF m.thrown THEN m
    ELSE [m EXCEPT !.assigns = @ + 1, !.heap[b].slots[i] = x]

\* cell (db, di) = cell (sb, si)
TCopyAssign(m, sb, si, db, di) ==
    IF m.thrown THEN m
    ELSE Assigned(Tick(m, "assign"), db, di, m.heap[sb].slots[si])

\* cell (db, di) = std::move(cell (sb, si)): the move assignment, which leaves
\* the source moved-from, or the copy assignment of a T that declares none
TMoveAssign(m, sb, si, db, di) ==
    IF m.thrown THEN m
    ELSE IF ~MoveAssign THEN TCopyAssign(m, sb, si, db, di)
    ELSE Assigned(Hollowed(Tick(m, "assign"), sb, si), db, di, m.heap[sb].slots[si])

\* cell (b, i) = std::move(temp), temp a local T with value x
TAssignTemp(m, b, i, x) ==
    IF m.thrown THEN m ELSE Assigned(Tick(m, "assign"), b, i, x)

\* T temp(args...): a local T; only its possible failure touches the machine
ConstructTemp(m, args) ==
    IF m.thrown \/ ~ArgsThrow(args) THEN m ELSE Tick(m, "ctor_new")

\* ------------------------------------------- standard-library algorithms
RECURSIVE DestroyLoop(_, _, _, _, _)
DestroyLoop(m, b, i0, n, k) ==
    IF k >= n THEN m ELSE DestroyLoop(DestroyAt(m, b, i0 + k), b, i0, n, k + 1)

\* std::destroy_n(b + i0, n)
DestroyN(m, b, i0, n) == DestroyLoop(m, b, i0, n, 0)

RECURSIVE UninitCopyLoop(_, _, _, _, _, _, _)
\* after the k-th construction: go on, or destroy the k cells built so far
UninitCopyNext(t, sb, s0, n, db, d0, k) ==
    IF t.thrown THEN DestroyN(t, db, d0, k)
    ELSE UninitCopyLoop(t, sb, s0, n, db, d0, k + 1)

UninitCopyLoop(m, sb, s0, n, db, d0, k) ==
    IF k >= n THEN m
    ELSE UninitCopyNext(CopyConstructAt(m, sb, s0 + k, db, d0 + k), sb, s0, n, db, d0, k)

\* std::uninitialized_copy_n(sb + s0, n, db + d0): on a throw it destroys
\* what it has constructed itself and rethrows
UninitCopyN(m, sb, s0, n, db, d0) ==
    IF m.thrown THEN m ELSE UninitCopyLoop(m, sb, s0, n, db, d0, 0)

RECURSIVE UninitMoveLoop(_, _, _, _, _, _, _)
UninitMoveNext(t, sb, s0, n, db, d0, k) ==
    IF t.thrown THEN DestroyN(t, db, d0, k)
    ELSE UninitMoveLoop(t, sb, s0, n, db, d0, k + 1)

UninitMoveLoop(m, sb, s0, n, db, d0, k) ==
    IF k >= n THEN m
    ELSE UninitMoveNext(MoveConstructAt(m, sb, s0 + k, db, d0 + k), sb, s0, n, db, d0, k)

\* std::uninitialized_move_n(sb + s0, n, db + d0)
UninitMoveN(m, sb, s0, n, db, d0) ==
    IF m.thrown THEN m ELSE UninitMoveLoop(m, sb, s0, n, db, d0, 0)

RECURSIVE UninitValueLoop(_, _, _, _, _)
UninitValueNext(t, b, i0, n, k) ==
    IF t.thrown THEN DestroyN(t, b, i0, k)
    ELSE UninitValueLoop(t, b, i0, n, k + 1)

UninitValueLoop(m, b, i0, n, k) ==
    IF k >= n THEN m
    ELSE UninitValueNext(ValueConstructAt(m, b, i0 + k), b, i0, n, k)

\* std::uninitialized_value_construct_n(b + i0, n)
UninitValueConstructN(m, b, i0, n) ==
    IF m.thrown THEN m ELSE UninitValueLoop(m, b, i0, n, 0)

RECURSIVE StdCopyLoop(_, _, _, _, _, _, _)
StdCopyLoop(m, sb, s0, n, db, d0, k) ==
    IF k >= n \/ m.thrown THEN m
    ELSE StdCopyLoop(TCopyAssign(m, sb, s0 + k, db, d0 + k), sb, s0, n, db, d0, k + 1)

\* std::copy(sb + s0, sb + s0 + n, db + d0): copy assignment, front to back
StdCopy(m, sb, s0, n, db, d0) == StdCopyLoop(m, sb, s0, n, db, d0, 0)

RECURSIVE StdMoveLoop(_, _, _, _, _, _)
StdMoveLoop(m, b, first, lst, dfirst, k) ==
    IF first + k >= lst \/ m.thrown THEN m
    ELSE StdMoveLoop(TMoveAssign(m, b, first + k, b, dfirst + k), b, first, lst, dfirst, k + 1)

\* std::move(b + first, b + lst, b + dfirst): move assignment, front to back
StdMove(m, b, first, lst, dfirst) == StdMoveLoop(m, b, first, lst, dfirst, 0)

RECURSIVE StdMoveBackwardLoop(_, _, _, _, _, _)
StdMoveBackwardLoop(m, b, first, lst, dlast, k) ==
    IF lst - k <= first \/ m.thrown THEN m
    ELSE StdMoveBackwardLoop(TMoveAssign(m, b, lst - k - 1, b, dlast - k - 1),
                             b, first, lst, dlast, k + 1)

\* std::move_backward(b + first, b + lst, b + dlast): back to front
StdMoveBackward(m, b, first, lst, dlast) == StdMoveBackwardLoop(m, b, first, lst, dlast, 0)

\* --------------------------------------------------------------- RawMemory
\* the members of r once Allocate has returned (nothing when it threw)
Adopt(m, r, capacity) ==
    IF m.thrown THEN m
    ELSE [m EXCEPT !.vec[r].buf = m.res, !.vec[r].cap = capacity]

\* RawMemory(size_t capacity)
RawMemoryCtor(m, r, capacity) == Adopt(Allocate(m, capacity), r, capacity)

\* the transfer of rhs's block and capacity to r: rhs is left without a block
Steal(m, r, rhs, buf, cap) ==
    [m EXCEPT !.vec[r].buf = buf, !.vec[r].cap = cap,
              !.vec[rhs].buf = nullptr, !.vec[rhs].cap = 0]

\* RawMemory(RawMemory&& other)
RawMemoryMoveCtor(m, r, other) ==
    Steal(m, r, other, m.vec[other].buf, m.vec[other].cap)

\* move assignment that takes rhs's block without releasing its own
RawMemoryMoveAssign_KeepsBlock(m, r, rhs) ==
    IF r # rhs
    THEN Steal(m, r, rhs, m.vec[rhs].buf, m.vec[rhs].cap)
    ELSE m

\* RawMemory::operator=(RawMemory&& rhs)
RawMemoryMoveAssign(m, r, rhs) ==
    IF r # rhs
    THEN Steal(Deallocate(m, m.vec[r].buf), r, rhs, m.vec[rhs].buf, m.vec[rhs].cap)
    ELSE m

\* RawMemory::Swap (a statement of the normal flow)
RawMemorySwap(m, r, other) ==
    IF m.thrown THEN m
    ELSE [m EXCEPT !.vec[r].buf = m.vec[other].buf, !.vec[r].cap = m.vec[other].cap,
                   !.vec[other].buf = m.vec[r].buf, !.vec[other].cap = m.vec[r].cap]

\* the object r is gone
Gone(m, r) == [m EXCEPT !.vec[r] = DeadVec]

\* RawMemory::~RawMemory; it runs on the normal and on the throwing way out
RawMemoryDtor(m, r) == Gone(Deallocate(m, m.vec[r].buf), r)

\* ------------------------------------------- statements on a vector's data_
\* std::destroy_n(data_.GetAddress() + i0, n) in the normal flow
Destroy(m, v, i0, n) ==
    IF m.thrown THEN m ELSE DestroyN(m, m.vec[v].buf, i0, n)

\* std::uninitialized_copy_n(src.data_ + s0, n, dst.data_ + d0)
CopyN(m, src, s0, n, dst, d0) ==
    UninitCopyN(m, m.vec[src].buf, s0, n, m.vec[dst].buf, d0)

\* std::uninitialized_move_n(src.data_ + s0, n, dst.data_ + d0)
MoveN(m, src, s0, n, dst, d0) ==
    UninitMoveN(m, m.vec[src].buf, s0, n, m.vec[dst].buf, d0)

\* the relocation chosen by if constexpr: move when it cannot throw or when
\* T cannot be copied, else copy
RelocateN(m, src, s0, n, dst, d0) ==
    IF UseMove THEN MoveN(m, src, s0, n, dst, d0) ELSE CopyN(m, src, s0, n, dst, d0)

\* std::uninitialized_value_construct_n(data_.GetAddress() + i0, n)
ValueConstructN(m, v, i0, n) ==
    UninitValueConstructN(m, m.vec[v].buf, i0, n)

\* new (r + i) T(args...)
ConstructIn(m, r, i, args) ==
    IF m.thrown THEN m ELSE ConstructAt(m, m.vec[r].buf, i, args)

\* size_ = n in the normal flow
SetSize(m, v, n) ==
    IF m.thrown THEN m ELSE [m EXCEPT !.vec[v].size = n]

\* ------------------------------------------------------------------ Vector
\* Vector() = default
VectorDefaultCtor(m, v) ==
    [m EXCEPT !.vec[v] = [alive |-> TRUE, buf |-> nullptr, cap |-> 0, size |-> 0]]

\* the end of a constructor whose member data_ is built: the object exists
\* with size_ elements, or the throw unwinds data_
Constructed(m, v, size) ==
    IF m.thrown THEN RawMemoryDtor(m, v)
    ELSE [m EXCEPT !.vec[v].size = size, !.vec[v].alive = TRUE]

\* Vector(size_t size)
VectorSizeCtor(m, v, size) ==
    LET m1 == RawMemoryCtor(m, v, size)
        m2 == ValueConstructN(m1, v, 0, size)
    IN Constructed(m2, v, size)

\* a copy constructor that shares the source's block instead of copying it
VectorCopyCtor_Shallow(m, v, other) ==
    [m EXCEPT !.vec[v] = [m.vec[other] EXCEPT !.alive = TRUE]]

\* Vector(const Vector& other)
VectorCopyCtor(m, v, other) ==
    LET n == m.vec[other].size
        m1 == RawMemoryCtor(m, v, n)
        m2 == CopyN(m1, other, 0, n, v, 0)
    IN Constructed(m2, v, n)

\* the size_ members after a move: the target takes n, the source is left at 0
TakeSize(m, v, other, n) ==
    [m EXCEPT !.vec[v].size = n, !.vec[v].alive = TRUE, !.vec[other].size = 0]

\* Vector(Vector&& other)
VectorMoveCtor(m, v, other) ==
    TakeSize(RawMemoryMoveCtor(m, v, other), v, other, m.vec[other].size)

\* Vector::~Vector, then the destructor of the member data_
VectorDtor(m, v) ==
    RawMemoryDtor(DestroyN(m, m.vec[v].buf, 0, m.vec[v].size), v)

\* std::swap(size_, other.size_)
SwapSize(m, v, other) ==
    IF m.thrown THEN m
    ELSE [m EXCEPT !.vec[v].size = m.vec[other].size, !.vec[other].size = m.vec[v].size]

\* Vector::Swap
Swap(m, v, other) == SwapSize(RawMemorySwap(m, v, other), v, other)

\* Reserve that destroys the old elements before it allocates the new block
Reserve_DestroysFirst(m, v, new_capacity) ==
    IF new_capacity <= m.vec[v].cap THEN m
    ELSE LET size == m.vec[v].size
             m0 == Destroy(m, v, 0, size)
             m1 == RawMemoryCtor(m0, "new_data", new_capacity)
             m2 == RawMemorySwap(m1, v, "new_data")
         IN RawMemoryDtor(SetSize(m2, v, 0), "new_data")

\* Reserve that never takes less than twice the current capacity
Reserve_GrowsGeometrically(m, v, new_capacity) ==
    IF new_capacity <= m.vec[v].cap THEN m
    ELSE LET size == m.vec[v].size
             twice == m.vec[v].cap * 2
             m1 == RawMemoryCtor(m, "new_data",
                                 IF new_capacity < twice THEN twice ELSE new_capacity)
             m2 == RelocateN(m1, v, 0, size, "new_data", 0)
             m3 == Destroy(m2, v, 0, size)
             m4 == RawMemorySwap(m3, v, "new_data")
         IN RawMemoryDtor(m4, "new_data")

\* Reserve that destroys the old elements even when the relocation threw
Reserve_DestroysOnThrow(m, v, new_capacity) ==
    IF new_capacity <= m.vec[v].cap THEN m
    ELSE LET size == m.vec[v].size
             m1 == RawMemoryCtor(m, "new_data", new_capacity)
             m2 == RelocateN(m1, v, 0, size, "new_data", 0)
             m3 == DestroyN(m2, m.vec[v].buf, 0, size)
             m4 == RawMemorySwap(m3, v, "new_data")
         IN RawMemoryDtor(m4, "new_data")

\* Vector::Reserve; new_data is destroyed on every way out of its scope
Reserve(m, v, new_capacity) ==
    IF new_capacity <= m.vec[v].cap THEN m
    ELSE LET size == m.vec[v].size
             m1 == RawMemoryCtor(m, "new_data", new_capacity)
             m2 == RelocateN(m1, v, 0, size, "new_data", 0)
             m3 == Destroy(m2, v, 0, size)
             m4 == RawMemorySwap(m3, v, "new_data")
         IN RawMemoryDtor(m4, "new_data")

\* catch (...) { std::destroy_n(data_.GetAddress() + size_, new_size - size_);
\* throw; } around the value construction of Resize's copying branch
ResizeCatch(m, v, size, new_size) ==
    IF m.thrown /\ m.fail = "ctor_default" /\ ~UseMove
    THEN DestroyN(m, m.vec[v].buf, size, new_size - size)
    ELSE m

\* Vector::Resize
Resize(m, v, new_size) ==
    LET size == m.vec[v].size
    IN IF new_size > size
       THEN LET m1 == Reserve(m, v, new_size)
                m2 == ValueConstructN(m1, v, size, new_size - size)
                m3 == ResizeCatch(m2, v, size, new_size)
            IN SetSize(m3, v, new_size)
       ELSE SetSize(Destroy(m, v, new_size, size - new_size), v, new_size)

\* PopBack that destroys the last element and forgets --size_
PopBack_KeepsSize(m, v) ==
    Destroy(m, v, m.vec[v].size - 1, 1)

\* Vector::PopBack
PopBack(m, v) ==
    SetSize(Destroy(m, v, m.vec[v].size - 1, 1), v, m.vec[v].size - 1)

Min(x, y) == IF x < y THEN x ELSE y

\* EmplaceInNewAlloc that grows the capacity by one cell
EmplaceInNewAlloc_GrowsByOne(m, v, pos_index, args) ==
    LET size == m.vec[v].size
        m1 == RawMemoryCtor(m, "new_data", size + 1)
        m2 == ConstructIn(m1, "new_data", pos_index, args)
        m3 == RelocateN(m2, v, 0, pos_index, "new_data", 0)
        m4 == RelocateN(m3, v, pos_index, size - pos_index, "new_data", pos_index + 1)
        m5 == Destroy(m4, v, 0, size)
        m6 == RawMemorySwap(m5, v, "new_data")
    IN RawMemoryDtor(m6, "new_data")

\* EmplaceInNewAlloc that relocates the old elements before it constructs the
\* new one
EmplaceInNewAlloc_RelocatesFirst(m, v, pos_index, args) ==
    LET size == m.vec[v].size
        m1 == RawMemoryCtor(m, "new_data", IF size = 0 THEN 1 ELSE size * 2)
        m2 == RelocateN(m1, v, 0, pos_index, "new_data", 0)
        m3 == RelocateN(m2, v, pos_index, size - pos_index, "new_data", pos_index + 1)
        m4 == ConstructIn(m3, "new_data", pos_index, args)
        m5 == Destroy(m4, v, 0, size)
        m6 == RawMemorySwap(m5, v, "new_data")
    IN RawMemoryDtor(m6, "new_data")

\* Vector::EmplaceInNewAlloc
EmplaceInNewAlloc(m, v, pos_index, args) ==
    LET size == m.vec[v].size
        m1 == RawMemoryCtor(m, "new_data", IF size = 0 THEN 1 ELSE size * 2)
        m2 == ConstructIn(m1, "new_data", pos_index, args)
        m3 == RelocateN(m2, v, 0, pos_index, "new_data", 0)
        m4 == RelocateN(m3, v, pos_index, size - pos_index, "new_data", pos_index + 1)
        m5 == Destroy(m4, v, 0, size)
        m6 == RawMemorySwap(m5, v, "new_data")
    IN RawMemoryDtor(m6, "new_data")

\* new (data_ + size_) T(std::move(*(data_ + size_ - 1))), or the copy
RelocateLast(m, buf, size) ==
    IF UseMove THEN MoveConstructAt(m, buf, size - 1, buf, size)
               ELSE CopyConstructAt(m, buf, size - 1, buf, size)

\* EmplaceInCurrentAlloc that shifts the tail front to back (std::move in
\* place of std::move_backward)
EmplaceInCurrentAlloc_ForwardShift(m, v, pos_index, args) ==
    LET buf == m.vec[v].buf
        size == m.vec[v].size
    IN IF pos_index < size
       THEN LET m1 == ConstructTemp(m, args)
                m2 == RelocateLast(m1, buf, size)
                m3 == StdMove(m2, buf, pos_index, size - 1, pos_index + 1)
            IN TAssignTemp(m3, buf, pos_index, ArgVal(m, args))
       ELSE ConstructAt(m, buf, size, args)

\* EmplaceInCurrentAlloc without the local temp: the arguments are read after
\* the tail has been shifted
EmplaceInCurrentAlloc_NoTemp(m, v, pos_index, args) ==
    LET buf == m.vec[v].buf
        size == m.vec[v].size
    IN IF pos_index < size
       THEN LET m2 == RelocateLast(m, buf, size)
                m3 == StdMoveBackward(m2, buf, pos_index, size - 1, size)
            IN IF m3.thrown THEN m3
               ELSE TAssignTemp(m3, buf, pos_index, ArgVal(m3, args))
       ELSE ConstructAt(m, buf, size, args)

\* Vector::EmplaceInCurrentAlloc; T temp(args...) reads the arguments before
\* anything is shifted
EmplaceInCurrentAlloc(m, v, pos_index, args) ==
    LET buf == m.vec[v].buf
        size == m.vec[v].size
    IN IF pos_index < size
       THEN LET m1 == ConstructTemp(m, args)
                m2 == RelocateLast(m1, buf, size)
                m3 == StdMoveBackward(m2, buf, pos_index, size - 1, size)
            IN TAssignTemp(m3, buf, pos_index, ArgVal(m, args))
       ELSE ConstructAt(m, buf, size, args)

\* ++size_; return data_.GetAddress() + pos_index;
EmplaceReturn(m, v, pos_index) ==
    IF m.thrown THEN m
    ELSE [m EXCEPT !.vec[v].size = @ + 1,
                   !.ret = [buf |-> m.vec[v].buf, idx |-> pos_index]]

\* Emplace that takes a new block on every call
Emplace_AlwaysReallocates(m, v, pos, args) ==
    LET pos_index == IF pos = m.vec[v].size THEN m.vec[v].size ELSE pos
        m1 == EmplaceInNewAlloc(m, v, pos_index, args)
    IN EmplaceReturn(m1, v, pos_index)

\* Vector::Emplace; pos is the offset of the iterator from begin()
Emplace(m, v, pos, args) ==
    LET pos_index == IF pos = m.vec[v].size THEN m.vec[v].size ELSE pos
        m1 == IF m.vec[v].size = m.vec[v].cap
              THEN EmplaceInNewAlloc(m, v, pos_index, args)
              ELSE EmplaceInCurrentAlloc(m, v, pos_index, args)
    IN EmplaceReturn(m1, v, pos_index)

\* Vector::Insert (both overloads forward to Emplace)
Insert(m, v, pos, args) == Emplace(m, v, pos, args)

\* EmplaceBack that inserts at begin()
EmplaceBack_AtFront(m, v, args) == Emplace(m, v, 0, args)

\* Vector::EmplaceBack: Emplace(end(), ...)
EmplaceBack(m, v, args) == Emplace(m, v, m.vec[v].size, args)

\* Vector::PushBack (both overloads forward to EmplaceBack); it returns void:
\* the result of EmplaceBack is discarded
PushBack(m, v, args) == [EmplaceBack(m, v, args) EXCEPT !.ret = NoRet]

\* std::destroy_at(data_ + size_ - 1); --size_; return begin() + pos_index;
EraseReturn(m, v, pos_index) ==
    IF m.thrown THEN m
    ELSE [DestroyAt(m, m.vec[v].buf, m.vec[v].size - 1)
             EXCEPT !.vec[v].size = @ - 1,
                    !.ret = [buf |-> m.vec[v].buf, idx |-> pos_index]]

\* Erase that shifts the tail back to front (std::move_backward in place of
\* std::move)
Erase_BackwardShift(m, v, pos) ==
    LET pos_index == pos
        buf == m.vec[v].buf
        size == m.vec[v].size
        m1 == IF pos_index < size - 1
              THEN StdMoveBackward(m, buf, pos_index + 1, size, size - 1)
              ELSE m
    IN EraseReturn(m1, v, pos_index)

\* Vector::Erase; pos is the offset of the iterator from cbegin()
Erase(m, v, pos) ==
    LET pos_index == pos
        buf == m.vec[v].buf
        size == m.vec[v].size
        m1 == IF pos_index < size - 1 THEN StdMove(m, buf, pos_index + 1, size, pos_index)
                                      ELSE m
    IN EraseReturn(m1, v, pos_index)

\* Vector::operator[] and the client's assignment through the reference it
\* returns: v[index] = x
Write(m, v, index, x) == TAssignTemp(m, m.vec[v].buf, index, x)

\* copy assignment that empties the target before it builds the copy
VectorCopyAssign_ClearsFirst(m, v, rhs) ==
    IF v = rhs THEN m
    ELSE LET m0 == SetSize(Destroy(m, v, 0, m.vec[v].size), v, 0)
             m1 == VectorCopyCtor(m0, "tmp", rhs)
             m2 == Swap(m1, v, "tmp")
         IN VectorDtor(m2, "tmp")

\* Vector::operator=(const Vector& rhs)
VectorCopyAssign(m, v, rhs) ==
    IF v = rhs THEN m
    ELSE LET buf == m.vec[v].buf
             size == m.vec[v].size
             rbuf == m.vec[rhs].buf
             rsize == m.vec[rhs].size
         IN IF rsize > m.vec[v].cap
            THEN \* Vector tmp(rhs); Swap(tmp); and tmp's destructor
                 LET m1 == VectorCopyCtor(m, "tmp", rhs)
                     m2 == Swap(m1, v, "tmp")
                 IN VectorDtor(m2, "tmp")
            ELSE LET m1 == IF size > rsize THEN Destroy(m, v, rsize, size - rsize) ELSE m
                     m2 == StdCopy(m1, rbuf, 0, Min(size, rsize), buf, 0)
                     m3 == IF size < rsize
                           THEN UninitCopyN(m2, rbuf, size, rsize - size, buf, size)
                           ELSE m2
                 IN SetSize(m3, v, rsize)

\* move assignment that forgets rhs.size_ = 0
VectorMoveAssign_KeepsSourceSize(m, v, rhs) ==
    IF v = rhs THEN m
    ELSE [RawMemoryMoveAssign(m, v, rhs) EXCEPT !.vec[v].size = m.vec[rhs].size]

\* Vector::operator=(Vector&& rhs)
VectorMoveAssign(m, v, rhs) ==
    IF v = rhs THEN m
    ELSE TakeSize(RawMemoryMoveAssign(m, v, rhs), v, rhs, m.vec[rhs].size)

\* ------------------------------------------------------------ observation
\* what an observer finds in cell i of block b: its value, or no element
\* when the block has no such cell (any more)
Cell(hp, b, i) ==
    IF b # nullptr /\ i \in DOMAIN hp[b].slots THEN hp[b].slots[i] ELSE Raw

\* the element sequence of vector v in heap hp: cells [0, size) of its block
Elems(vc, hp, v) ==
    [i \in 0..(vc[v].size - 1) |-> Cell(hp, vc[v].buf, i)]

\* Vector::Size, Vector::Capacity
Size(vc, v) == vc[v].size
Capacity(vc, v) == vc[v].cap

\* the data model's invariant of one vector: size <= capacity, the block has
\* capacity cells, cells [0, size) are live and cells [size, capacity) are raw
WellFormed(vc, hp, v) ==
    /\ vc[v].size <= vc[v].cap
    /\ (vc[v].cap = 0) = (vc[v].buf = nullptr)
    /\ vc[v].buf # nullptr =>
          /\ hp[vc[v].buf].alloc
          /\ DOMAIN hp[vc[v].buf].slots = 0..(vc[v].cap - 1)
          /\ \A i \in 0..(vc[v].cap - 1) : Live(hp[vc[v].buf].slots[i]) = (i < vc[v].size)

\* no object has been left with a broken invariant by a failed call; once
\* one has, the client does nothing but destroy it
Sound == \A w \in Vecs : vec[w].alive => WellFormed(vec, heap, w)

\* a call is made on a constructed object, and only while every object's
\* invariant holds
Usable(v) == vec[v].alive /\ Sound

Other(v) == CHOOSE w \in Vecs : w # v

\* the cells the client may hold, and the vectors it uses
Cells == IF ~pair THEN MaxCells ELSE IF 1 \in inject THEN MaxShared ELSE MaxPair
Active == IF pair THEN Vecs ELSE {"a"}

\* a call is made only while the vectors together stay within Cells cells
Fits(v, newcap) == newcap + vec[Other(v)].cap <= Cells

\* ------------------------------------------------------------ call frames
\* the fault injected into one call: f = 0 none, f = -1 operator new throws
\* bad_alloc, f > 0 the f-th fallible call of T throws.  Every operation
\* allocates before it calls T, so the two kinds of fault never need to be
\* combined.
Faults == (-1)..MaxFail
\* the faults injected into the element operations (Reserve, Resize, Erase
\* and the Emplace family); the copy operations and Vector(size) take every
\* fault
ElemFaults == inject

\* the values the client passes for new elements.  Vector never reads a
\* value: elements are told apart by the passed value 1, the value 0 of a
\* value-initialised T and the moved-from state.  The client that keeps a
\* record passes a second value, to tell the order of its pushes.
Values == IF hist.on THEN {1, MaxVal + 1} ELSE {1}

\* the machine at the start of a call
Start(f) ==
    [vec |-> vec, heap |-> heap, calls |-> 0,
     failAt |-> IF f > 0 THEN f ELSE 0, oom |-> (f = -1),
     thrown |-> FALSE, fail |-> "none", res |-> nullptr, ret |-> NoRet,
     leaked |-> 0, badDestroy |-> 0, dblFree |-> 0, destroyed |-> 0,
     assigns |-> 0, relocs |-> 0, allocs |-> 0, frees |-> 0]

NoCall ==
    [name |-> "none", v |-> "a", other |-> "a", pos |-> -1, val |-> -1, n |-> -1,
     outcome |-> "ok", fail |-> "none", ret |-> NoRet,
     leaked |-> 0, badDestroy |-> 0, dblFree |-> 0, destroyed |-> 0,
     assigns |-> 0, relocs |-> 0, allocs |-> 0, frees |-> 0]

\* no call is being observed: the next call may start
Idle == last = NoCall

\* ------------------------------------------------------- the client's record
\* the client remembers nothing
NoHist ==
    [on |-> FALSE, k |-> -1, buf |-> nullptr, cap |-> 0,
     fresh |-> FALSE, pushes |-> 0, pops |-> 0, shadow |-> NoSlots, relocs |-> 0]

\* the record of a client that has just default-constructed its vector: no
\* Reserve to remember, no push and no pop yet
FreshHist == [NoHist EXCEPT !.on = TRUE, !.fresh = TRUE]

\* the Reserve(k) the client relies on: remembered when Reserve(k) returns,
\* with the block and the capacity it left; kept while the calls that follow
\* are Emplace, Insert, PushBack or EmplaceBack calls that return with at most
\* k elements; forgotten at any other call
TrackReserve(h, m, name, v, n) ==
    IF m.thrown THEN [h EXCEPT !.k = -1, !.buf = nullptr, !.cap = 0]
    ELSE IF name = "Reserve"
    THEN [h EXCEPT !.k = n, !.buf = m.vec[v].buf, !.cap = m.vec[v].cap]
    ELSE IF name \in {"Emplace", "Insert", "PushBack", "EmplaceBack"}
            /\ h.k >= 0 /\ m.vec[v].size <= h.k
    THEN h
    ELSE [h EXCEPT !.k = -1, !.buf = nullptr, !.cap = 0]

\* a sequence without its last element
Front(q) == [i \in 0..(Cardinality(DOMAIN q) - 2) |-> q[i]]
\* a sequence with x added at the end
Append0(q, x) ==
    [i \in 0..Cardinality(DOMAIN q) |-> IF i \in DOMAIN q THEN q[i] ELSE x]

\* the pushes and pops made on a vector since it was default-constructed:
\* their counts, the values they should have left, and the relocations the
\* pushes made; the count stops at any other call and after MaxPushes pushes
TrackPushPop(h, m, name, val) ==
    IF name = "Vector()" /\ ~m.thrown
    THEN [h EXCEPT !.fresh = TRUE, !.pushes = 0, !.pops = 0,
                   !.shadow = NoSlots, !.relocs = 0]
    ELSE IF h.fresh /\ ~m.thrown /\ name \in {"PushBack", "EmplaceBack"}
            /\ h.pushes < MaxPushes
    THEN [h EXCEPT !.pushes = @ + 1, !.shadow = Append0(@, val),
                   !.relocs = @ + m.relocs]
    ELSE IF h.fresh /\ ~m.thrown /\ name = "PopBack"
    THEN [h EXCEPT !.pops = @ + 1, !.shadow = Front(@)]
    ELSE [h EXCEPT !.fresh = FALSE, !.pushes = 0, !.pops = 0,
                   !.shadow = NoSlots, !.relocs = 0]

Track(h, m, name, v, val, n) ==
    IF h.on THEN TrackPushPop(TrackReserve(h, m, name, v, n), m, name, val) ELSE h

\* the call returns (or throws): its effects become the program state
Commit(m, name, v, other, pos, val, n) ==
    /\ vec' = m.vec
    /\ hist' = Track(hist, m, name, v, val, n)
    /\ heap' = m.heap
    /\ old' = [vec |-> vec, heap |-> heap]
    /\ last' = [name |-> name, v |-> v, other |-> other, pos |-> pos, val |-> val,
                n |-> n, outcome |-> IF m.thrown THEN "throw" ELSE "ok",
                fail |-> m.fail, ret |-> m.ret,
                leaked |-> m.leaked, badDestroy |-> m.badDestroy,
                dblFree |-> m.dblFree, destroyed |-> m.destroyed,
                assigns |-> m.assigns, relocs |-> m.relocs,
                allocs |-> m.allocs, frees |-> m.frees]
    /\ UNCHANGED <<tkind, pair, inject>>

\* one default-constructed vector; every fault is injected into the element
\* operations
Init ==
    /\ tkind \in TKinds
    /\ pair = FALSE
    /\ inject = Faults
    /\ vec = [o \in Objects |-> IF o = "a"
                                THEN [alive |-> TRUE, buf |-> nullptr, cap |-> 0, size |-> 0]
                                ELSE DeadVec]
    /\ heap = [b \in Blocks |-> FreeBlock]
    /\ old = [vec |-> vec, heap |-> heap]
    /\ last = NoCall
    /\ hist = NoHist

\* two default-constructed vectors; the failure of operator new is injected
\* into the element operations
InitPair ==
    /\ tkind \in QuietKinds
    /\ pair = TRUE
    /\ inject = {-1, 0}
    /\ vec = [o \in Objects |-> IF o \in Vecs
                                THEN [alive |-> TRUE, buf |-> nullptr, cap |-> 0, size |-> 0]
                                ELSE DeadVec]
    /\ heap = [b \in Blocks |-> FreeBlock]
    /\ old = [vec |-> vec, heap |-> heap]
    /\ last = NoCall
    /\ hist = NoHist

\* one default-constructed vector, and a client that keeps a record of its
\* calls
InitSeq ==
    /\ tkind \in QuietKinds
    /\ pair = FALSE
    /\ inject = {0}
    /\ vec = [o \in Objects |-> IF o = "a"
                                THEN [alive |-> TRUE, buf |-> nullptr, cap |-> 0, size |-> 0]
                                ELSE DeadVec]
    /\ heap = [b \in Blocks |-> FreeBlock]
    /\ old = [vec |-> vec, heap |-> heap]
    /\ last = NoCall
    /\ hist = FreshHist

\* two default-constructed vectors; every fault is injected into every
\* operation
InitBlocks ==
    /\ tkind \in BlockKinds
    /\ pair = TRUE
    /\ inject = Faults
    /\ vec = [o \in Objects |-> IF o \in Vecs
                                THEN [alive |-> TRUE, buf |-> nullptr, cap |-> 0, size |-> 0]
                                ELSE DeadVec]
    /\ heap = [b \in Blocks |-> FreeBlock]
    /\ old = [vec |-> vec, heap |-> heap]
    /\ last = NoCall
    /\ hist = NoHist

\* ---------------------------------------------------------------- actions
CallDefaultCtor ==
    /\ Idle
    /\ \E v \in Active :
        /\ ~vec[v].alive /\ Sound
        /\ Commit(VectorDefaultCtor(Start(0), v), "Vector()", v, v, -1, -1, -1)

CallSizeCtor ==
    /\ Idle
    /\ \E v \in Active, n \in 0..Cells, f \in Faults :
        /\ ~vec[v].alive /\ Sound
        /\ Fits(v, n)
        /\ Commit(VectorSizeCtor(Start(f), v, n), "Vector(size)", v, v, -1, -1, n)

CallCopyCtor ==
    /\ Idle
    /\ \E v \in Vecs, f \in Faults :
        /\ CopyCtor
        /\ ~vec[v].alive /\ Sound
        /\ Usable(Other(v))
        /\ Fits(v, vec[Other(v)].size)
        /\ Commit(VectorCopyCtor(Start(f), v, Other(v)),
                  "Vector(copy)", v, Other(v), -1, -1, -1)

CallMoveCtor ==
    /\ Idle
    /\ \E v \in Vecs :
        /\ ~vec[v].alive /\ Sound
        /\ Usable(Other(v))
        /\ Commit(VectorMoveCtor(Start(0), v, Other(v)),
                  "Vector(move)", v, Other(v), -1, -1, -1)

CallDtor ==
    /\ Idle
    /\ \E v \in Active :
        /\ vec[v].alive
        /\ Commit(VectorDtor(Start(0), v), "~Vector", v, v, -1, -1, -1)

CallCopyAssign ==
    /\ Idle
    /\ \E v \in Vecs, rhs \in Vecs, f \in Faults :
        /\ CopyCtor
        /\ Usable(v) /\ Usable(rhs)
        /\ v # rhs /\ vec[rhs].size > vec[v].cap => Fits(rhs, vec[rhs].size)
        /\ Commit(VectorCopyAssign(Start(f), v, rhs), "copy=", v, rhs, -1, -1, -1)

CallMoveAssign ==
    /\ Idle
    /\ \E v \in Vecs, rhs \in Vecs :
        /\ Usable(v) /\ Usable(rhs)
        /\ Commit(VectorMoveAssign(Start(0), v, rhs), "move=", v, rhs, -1, -1, -1)

CallSwap ==
    /\ Idle
    /\ \E v \in Vecs, other \in Vecs :
        /\ Usable(v) /\ Usable(other)
        /\ Commit(Swap(Start(0), v, other), "Swap", v, other, -1, -1, -1)

CallReserve ==
    /\ Idle
    /\ \E v \in {"a"}, n \in 0..Cells, f \in ElemFaults :
        /\ Usable(v)
        /\ Fits(v, n)
        /\ Commit(Reserve(Start(f), v, n), "Reserve", v, v, -1, -1, n)

CallResize ==
    /\ Idle
    /\ \E v \in {"a"}, n \in 0..Cells, f \in ElemFaults :
        /\ Usable(v)
        /\ Fits(v, n)
        /\ Commit(Resize(Start(f), v, n), "Resize", v, v, -1, -1, n)

\* growth doubles the capacity; the call is made while the result still fits
GrowthFits(v) ==
    vec[v].size = vec[v].cap => Fits(v, IF vec[v].size = 0 THEN 1 ELSE vec[v].size * 2)

CallEmplace ==
    /\ Idle
    /\ \E v \in {"a"}, pos \in 0..Cells, x \in Values, f \in ElemFaults :
        /\ Usable(v)
        /\ pos <= vec[v].size
        /\ GrowthFits(v)
        /\ Commit(Emplace(Start(f), v, pos, ByValue(x)), "Emplace", v, v, pos, x, -1)

\* the overloads of Insert and PushBack a caller can select with a T of its
\* own: T&& always, const T& when T can be copied
Overloads == IF CopyCtor THEN {ByMove(x) : x \in Values} \cup {ByCopy(x) : x \in Values}
                         ELSE {ByMove(x) : x \in Values}

CallInsert ==
    /\ Idle
    /\ \E v \in {"a"}, pos \in 0..Cells, value \in Overloads, f \in ElemFaults :
        /\ Usable(v)
        /\ pos <= vec[v].size
        /\ GrowthFits(v)
        /\ Commit(Insert(Start(f), v, pos, value), "Insert", v, v, pos, value.val, -1)

CallPushBack ==
    /\ Idle
    /\ \E v \in {"a"}, value \in Overloads, f \in ElemFaults :
        /\ Usable(v)
        /\ GrowthFits(v)
        /\ Commit(PushBack(Start(f), v, value), "PushBack", v, v, vec[v].size, value.val, -1)

CallEmplaceBack ==
    /\ Idle
    /\ \E v \in {"a"}, x \in Values, f \in ElemFaults :
        /\ Usable(v)
        /\ GrowthFits(v)
        /\ Commit(EmplaceBack(Start(f), v, ByValue(x)), "EmplaceBack", v, v, vec[v].size, x, -1)

\* Insert(pos, v[j]): the const T& overload with a reference to an element
\* of the vector itself (the failures of Insert are those of CallInsert)
CallInsertRef ==
    /\ Idle
    /\ \E v \in {"a"}, pos \in 0..Cells, j \in 0..Cells, f \in {0} :
        /\ Usable(v) /\ CopyCtor
        /\ pos <= vec[v].size /\ j < vec[v].size
        /\ GrowthFits(v)
        /\ Commit(Insert(Start(f), v, pos, ByRef(vec[v].buf, j)),
                  "Insert", v, v, pos, heap[vec[v].buf].slots[j], j)

\* PushBack(v[j])
CallPushBackRef ==
    /\ Idle
    /\ \E v \in {"a"}, j \in 0..Cells, f \in {0} :
        /\ Usable(v) /\ CopyCtor
        /\ j < vec[v].size
        /\ GrowthFits(v)
        /\ Commit(PushBack(Start(f), v, ByRef(vec[v].buf, j)),
                  "PushBack", v, v, vec[v].size, heap[vec[v].buf].slots[j], j)

CallErase ==
    /\ Idle
    /\ \E v \in {"a"}, pos \in 0..Cells, f \in ElemFaults \ {-1} :
        /\ Usable(v)
        /\ pos < vec[v].size
        /\ Commit(Erase(Start(f), v, pos), "Erase", v, v, pos, -1, -1)

\* v[index] = x; the assignment is the client's own statement and is taken
\* to succeed
CallWrite ==
    /\ Idle
    /\ \E v \in {"a"}, index \in 0..Cells, x \in Values :
        /\ Usable(v)
        /\ index < vec[v].size
        /\ Commit(Write(Start(0), v, index, x), "Write", v, v, index, x, -1)

CallPopBack ==
    /\ Idle
    /\ \E v \in {"a"} :
        /\ Usable(v)
        /\ vec[v].size > 0
        /\ Commit(PopBack(Start(0), v), "PopBack", v, v, -1, -1, -1)

\* the caller has seen the outcome of the call and goes on to the next one
Return ==
    /\ last # NoCall
    /\ last' = NoCall
    /\ old' = [vec |-> vec, heap |-> heap]
    /\ UNCHANGED <<tkind, pair, inject, vec, heap, hist>>

\* the calls on one vector
Next ==
    \/ Return
    \/ CallDefaultCtor
    \/ CallSizeCtor
    \/ CallDtor
    \/ CallReserve
    \/ CallResize
    \/ CallEmplace
    \/ CallInsert
    \/ CallPushBack
    \/ CallEmplaceBack
    \/ CallInsertRef
    \/ CallPushBackRef
    \/ CallErase
    \/ CallWrite
    \/ CallPopBack

\* the calls on one vector and the calls that involve two
NextPair ==
    \/ Next
    \/ CallCopyCtor
    \/ CallMoveCtor
    \/ CallCopyAssign
    \/ CallMoveAssign
    \/ CallSwap

Spec == Init /\ [][Next]_vars

SpecPair == InitPair /\ [][NextPair]_vars

\* the calls that allocate, hand over or release a block (Insert, PushBack
\* and EmplaceBack forward to Emplace), and those that change the size
NextBlocks ==
    \/ Return
    \/ CallDefaultCtor
    \/ CallSizeCtor
    \/ CallCopyCtor
    \/ CallMoveCtor
    \/ CallDtor
    \/ CallCopyAssign
    \/ CallMoveAssign
    \/ CallSwap
    \/ CallReserve
    \/ CallResize
    \/ CallEmplace
    \/ CallErase
    \/ CallPopBack

\* the calls on two vectors, every one of them failing in every way
SpecBlocks == InitBlocks /\ [][NextBlocks]_vars

\* the calls on one vector, none of them failing, with the client's record
SpecSeq == InitSeq /\ [][Next]_vars

TypeOK ==
    /\ tkind \in TKinds
    /\ \A o \in Locals : vec[o] = DeadVec
    /\ \A b \in Blocks : heap[b].alloc => \E v \in Vecs : vec[v].buf = b
    /\ \A v \in Vecs : vec[v].alive => v \in Active

\* ------------------------------------------------------------- properties
OldElems(v) == Elems(old.vec, old.heap, v)
NowElems(v) == Elems(vec, heap, v)
OldSize(v) == Size(old.vec, v)
OldCapacity(v) == Capacity(old.vec, v)

\* size, capacity and element sequence of v are what they were before the call
SameAsBefore(v) ==
    /\ Size(vec, v) = OldSize(v)
    /\ Capacity(vec, v) = OldCapacity(v)
    /\ NowElems(v) = OldElems(v)

\* size <= capacity, cells [0, size) are live, cells [size, capacity) are raw
SizeCountsLive(v) ==
    /\ Size(vec, v) <= Capacity(vec, v)
    /\ \A i \in 0..(Capacity(vec, v) - 1) :
          Live(Cell(heap, vec[v].buf, i)) = (i < Size(vec, v))

Threw == last.outcome = "throw"
Returned == last # NoCall /\ last.outcome = "ok"
EmplaceNames == {"Emplace", "Insert", "PushBack", "EmplaceBack"}
\* the last call was an Emplace-family call that found size == capacity
GrowthEmplace == last.name \in EmplaceNames /\ OldSize(last.v) = OldCapacity(last.v)
\* the last call was an Emplace-family call into spare capacity, before end()
MidEmplaceInPlace ==
    /\ last.name \in EmplaceNames
    /\ OldSize(last.v) < OldCapacity(last.v)
    /\ last.pos < OldSize(last.v)
\* an element constructor failed while the last call was growing the storage
CtorFailedInGrowth ==
    /\ Threw
    /\ \/ last.name = "Reserve" /\ last.fail = "ctor_reloc"
       \/ last.name = "Resize" /\ last.fail = "ctor_reloc"
       \/ GrowthEmplace /\ last.fail \in {"ctor_new", "ctor_reloc"}

\* C1: after a call that returned normally, each vector it was made on has
\* size <= capacity, cells [0, size) of its block live and cells
\* [size, capacity) uninitialised
C1_SizeCountsLive ==
    Returned => \A v \in {last.v, last.other} : vec[v].alive => SizeCountsLive(v)

C1_Witness ==
    /\ Returned /\ last.name = "Emplace" /\ GrowthEmplace
    /\ OldSize("a") >= 1 /\ last.pos = 0
    /\ vec["b"].alive /\ Size(vec, "b") >= 1

\* C2: a constructor failure during growth (the relocating copy, or the
\* construction of the new element) leaves size, capacity and elements as
\* they were before the call
C2_StrongGuarantee ==
    (CtorFailedInGrowth /\ (last.fail = "ctor_new" \/ ~UseMove)) => SameAsBefore(last.v)

C2_Witness ==
    /\ CtorFailedInGrowth /\ GrowthEmplace /\ last.fail = "ctor_reloc" /\ ~UseMove
    /\ OldSize("a") = 2 /\ last.pos = 1

\* C3: a constructor failure during growth leaks nothing: no block is released
\* with a constructed element in it, and nothing is destroyed twice
C3_NoLeakOnFailedGrowth ==
    CtorFailedInGrowth => (last.leaked = 0 /\ last.badDestroy = 0)

\* C4: an operation that gives up a block has destroyed every live element of
\* the block before the block is released
C4_DestroyBeforeRelease ==
    (last.name \in {"~Vector", "Reserve", "copy=", "move="} \/ GrowthEmplace)
        => (last.leaked = 0 /\ last.badDestroy = 0)

\* C5: after move construction or move assignment from a distinct source, the
\* source has size 0 and capacity 0 and the target has the source's former
\* elements in order, with its former size and capacity
C5_MoveTransfers ==
    (last.name \in {"Vector(move)", "move="} /\ last.v # last.other) =>
        /\ Size(vec, last.other) = 0 /\ Capacity(vec, last.other) = 0
        /\ Size(vec, last.v) = OldSize(last.other)
        /\ Capacity(vec, last.v) = OldCapacity(last.other)
        /\ NowElems(last.v) = OldElems(last.other)

C5_Witness ==
    /\ last.name = "move=" /\ last.v # last.other
    /\ OldSize(last.other) = 2 /\ OldSize(last.v) = 1
    /\ OldElems(last.other)[0] # OldElems(last.other)[1]

\* C6: a failure partway through copy assignment into sufficient capacity
\* leaves the target's size counting exactly its live cells
C6_FitPathStaysDestructible ==
    (/\ last.name = "copy=" /\ Threw
     /\ OldSize(last.other) <= OldCapacity(last.v)) => SizeCountsLive(last.v)

\* C7: a failed assignment during the in-place shift of Erase or of a
\* mid-sequence Emplace leaves cells [0, size) live and cells [size, capacity)
\* without a constructed element
C7_ShiftFailureStaysValid ==
    (/\ Threw /\ last.fail = "assign"
     /\ (last.name = "Erase" \/ MidEmplaceInPlace)) => SizeCountsLive(last.v)

\* C8: a failed default construction in a growing Resize destroys only what
\* was constructed, once each; size and the original elements stay
C8_ResizeFailureDestroysOnce ==
    (last.name = "Resize" /\ Threw /\ last.fail = "ctor_default") =>
        /\ last.badDestroy = 0
        /\ Size(vec, last.v) = OldSize(last.v)
        /\ NowElems(last.v) = OldElems(last.v)

\* C9: Emplace (and Insert, PushBack, EmplaceBack) at pos_index adds one
\* element: the old [0, pos_index), the new element, the old [pos_index, size),
\* on both paths, and returns an iterator to pos_index of the current storage
\* (PushBack, which is void, returns nothing)
C9_EmplaceInsertsAtPos ==
    (last.name \in EmplaceNames /\ Returned) =>
        /\ Size(vec, last.v) = OldSize(last.v) + 1
        /\ last.ret = IF last.name = "PushBack" THEN NoRet
                      ELSE [buf |-> vec[last.v].buf, idx |-> last.pos]
        /\ \A i \in 0..(last.pos - 1) : NowElems(last.v)[i] = OldElems(last.v)[i]
        /\ NowElems(last.v)[last.pos] = last.val
        /\ \A i \in last.pos..(OldSize(last.v) - 1) :
              NowElems(last.v)[i + 1] = OldElems(last.v)[i]

C9_Witness ==
    /\ last.name = "Emplace" /\ Returned /\ MidEmplaceInPlace
    /\ OldSize("a") = 3 /\ last.pos = 0
    /\ OldElems("a")[0] # OldElems("a")[1]

\* C10: Erase at i removes that element, moves the later ones down one place
\* in order, keeps the earlier ones and the capacity, returns an iterator to
\* i, and assigns nothing when i is the last element
C10_EraseRemovesAtPos ==
    (last.name = "Erase" /\ Returned) =>
        /\ Size(vec, last.v) = OldSize(last.v) - 1
        /\ Capacity(vec, last.v) = OldCapacity(last.v)
        /\ last.ret = [buf |-> vec[last.v].buf, idx |-> last.pos]
        /\ \A i \in 0..(last.pos - 1) : NowElems(last.v)[i] = OldElems(last.v)[i]
        /\ \A i \in last.pos..(Size(vec, last.v) - 1) :
              NowElems(last.v)[i] = OldElems(last.v)[i + 1]
        /\ last.pos = OldSize(last.v) - 1 => last.assigns = 0

C10_Witness ==
    /\ last.name = "Erase" /\ Returned
    /\ OldSize("a") = 3 /\ last.pos = 0
    /\ OldElems("a")[1] # OldElems("a")[2]

\* C11: after Reserve(k) has returned, while only Emplace, Insert, PushBack and
\* EmplaceBack calls follow and the vector holds at most k elements, the
\* vector's block and its capacity are the ones Reserve(k) left
C11_ReserveThenInsertsStay ==
    hist.k >= 0 => (vec["a"].buf = hist.buf /\ Capacity(vec, "a") = hist.cap)

C11_Witness ==
    /\ hist.k = 3 /\ Size(vec, "a") = 3 /\ Returned
    /\ last.name = "Insert" /\ last.pos = 0
    /\ hist.cap = 3

CopyNames == {"Vector(copy)", "copy="}
\* the calls that change one vector
Mutators == EmplaceNames \cup {"Erase", "PopBack", "Resize", "Reserve", "Write"}

\* C12: a copy (by construction or by assignment) has the source's size and
\* elements and leaves the source as it was; a call that changes one vector
\* leaves the size and the elements of the other as they were
C12_CopyIsIsolated ==
    /\ (last.name \in CopyNames /\ Returned /\ last.v # last.other) =>
          /\ Size(vec, last.v) = OldSize(last.other)
          /\ NowElems(last.v) = OldElems(last.other)
          /\ SameAsBefore(last.other)
    /\ (last.name \in Mutators /\ vec[Other(last.v)].alive) =>
          SameAsBefore(Other(last.v))

C12_Witness ==
    /\ pair /\ last.name = "Write" /\ Returned
    /\ vec["b"].alive /\ Size(vec, "b") = 2
    /\ OldElems("a") = NowElems("b")
    /\ NowElems("a") # NowElems("b")

\* C13: when copy assignment from a source larger than the target's capacity
\* fails (in the allocation or in an element copy), the target keeps its
\* block, size, capacity and elements, every element constructed in the
\* temporary copy has been destroyed, and the temporary's block is released
C13_CopyAssignGrowthStrong ==
    (last.name = "copy=" /\ Threw /\ OldSize(last.other) > OldCapacity(last.v)) =>
        /\ SameAsBefore(last.v)
        /\ vec[last.v].buf = old.vec[last.v].buf
        /\ last.destroyed = last.relocs
        /\ last.leaked = 0 /\ last.badDestroy = 0
        /\ last.allocs = last.frees

C13_Witness ==
    /\ last.name = "copy=" /\ Threw /\ last.fail = "ctor_reloc"
    /\ OldSize(last.other) = 2 /\ OldSize(last.v) = 1
    /\ last.relocs = 1 /\ last.destroyed = 1

\* C14: when the construction of the new element from the arguments of an
\* Emplace, Insert, PushBack or EmplaceBack fails, no old element has been
\* relocated or assigned, and the vector keeps its block, size, capacity and
\* elements, on the growth path and on both in-place paths
C14_NewElementFailureUntouched ==
    (last.name \in EmplaceNames /\ Threw /\ last.fail = "ctor_new") =>
        /\ SameAsBefore(last.v)
        /\ vec[last.v].buf = old.vec[last.v].buf
        /\ vec[last.v].buf # nullptr =>
              heap[vec[last.v].buf] = old.heap[vec[last.v].buf]
        /\ last.relocs = 0 /\ last.assigns = 0 /\ last.destroyed = 0

C14_Witness ==
    /\ last.name = "Emplace" /\ Threw /\ last.fail = "ctor_new"
    /\ GrowthEmplace /\ UseMove
    /\ OldSize("a") = 2 /\ last.pos = 1

\* C15: a returning Reserve(new_capacity) keeps the size and the elements in
\* index order; with new_capacity <= capacity it also keeps the block and the
\* capacity and allocates nothing, else the capacity becomes new_capacity and
\* each element has been relocated once
C15_ReserveFrame ==
    (last.name = "Reserve" /\ Returned) =>
        /\ Size(vec, last.v) = OldSize(last.v)
        /\ NowElems(last.v) = OldElems(last.v)
        /\ IF last.n <= OldCapacity(last.v)
           THEN /\ Capacity(vec, last.v) = OldCapacity(last.v)
                /\ vec[last.v].buf = old.vec[last.v].buf
                /\ last.allocs = 0 /\ last.relocs = 0
           ELSE /\ Capacity(vec, last.v) = last.n
                /\ last.relocs = OldSize(last.v)

C15_Witness ==
    /\ last.name = "Reserve" /\ Returned
    /\ OldCapacity("a") = 2 /\ OldSize("a") = 2 /\ last.n = 3
    /\ OldElems("a")[0] # OldElems("a")[1]

\* C16: while only PushBack, EmplaceBack and PopBack have been called on a
\* vector since it was default-constructed, its size is the number of pushes
\* minus the number of pops, and its elements are the pushed values in the
\* order of the pushes, each pop having removed the then-last one
C16_PushPopCounts ==
    hist.fresh =>
        /\ Size(vec, "a") = hist.pushes - hist.pops
        /\ NowElems("a") = hist.shadow

C16_Witness ==
    /\ hist.fresh /\ hist.pushes = 4 /\ hist.pops = 1
    /\ Size(vec, "a") = 3
    /\ NowElems("a")[0] # NowElems("a")[1] /\ NowElems("a")[1] # NowElems("a")[2]

\* C17: an Emplace, Insert, PushBack or EmplaceBack that finds size = capacity
\* leaves a capacity of exactly max(1, 2 * size); so after N >= 1 appends to a
\* default-constructed vector the capacity is below 2 * N, the appends have
\* relocated capacity - 1 elements in all, and that is fewer than 2 * N
C17_GrowthDoubles ==
    /\ (GrowthEmplace /\ Returned) =>
          Capacity(vec, last.v) = (IF OldSize(last.v) = 0 THEN 1 ELSE 2 * OldSize(last.v))
    /\ (hist.fresh /\ hist.pops = 0 /\ hist.pushes >= 1) =>
          /\ Capacity(vec, "a") < 2 * hist.pushes
          /\ hist.relocs = Capacity(vec, "a") - 1
          /\ hist.relocs < 2 * hist.pushes

C17_Witness ==
    /\ hist.fresh /\ hist.pops = 0 /\ hist.pushes = 3
    /\ GrowthEmplace /\ Returned /\ last.relocs = 2
    /\ hist.relocs = 3 /\ Capacity(vec, "a") = 4

\* the calls that may ask for a raw block and are named by C18
Allocating == EmplaceNames \cup {"Reserve", "Resize", "Vector(copy)", "copy="}

\* C18: when operator new fails in Reserve, Resize, a growing Emplace, Insert,
\* PushBack or EmplaceBack, copy construction or copy assignment, the call
\* throws with every block and every vector as before the call: nothing has
\* been relocated, destroyed or assigned
C18_AllocFailureUntouched ==
    (last.name \in Allocating /\ Threw /\ last.fail = "alloc") =>
        /\ heap = old.heap
        /\ \A v \in Vecs : vec[v] = old.vec[v]
        /\ last.relocs = 0 /\ last.destroyed = 0 /\ last.assigns = 0
        /\ last.allocs = 0 /\ last.frees = 0

C18_Witness ==
    /\ last.name = "Resize" /\ Threw /\ last.fail = "alloc"
    /\ OldSize("a") = 1 /\ last.n = 2
    /\ vec["b"].alive /\ Size(vec, "b") = 1

\* the objects whose RawMemory holds block b
Owners(b) == {o \in Objects : vec[o].buf = b}
\* the blocks allocated in heap hp
Allocated(hp) == {b \in Blocks : hp[b].alloc}

\* C19: after every call, returning or throwing, each allocated block is held
\* by exactly one RawMemory and each block a RawMemory holds is allocated (no
\* block is leaked, none is released while held); no block has been released
\* twice; the blocks allocated minus the blocks released by the call is the
\* change in the number of allocated blocks; the locals of the call are gone;
\* and a RawMemory of capacity 0 holds no block
C19_BlocksReleasedOnce ==
    /\ \A b \in Blocks : heap[b].alloc => Cardinality(Owners(b)) = 1
    /\ \A o \in Objects : vec[o].buf # nullptr => heap[vec[o].buf].alloc
    /\ last.dblFree = 0
    /\ last.allocs - last.frees =
          Cardinality(Allocated(heap)) - Cardinality(Allocated(old.heap))
    /\ \A o \in Locals : vec[o] = DeadVec
    /\ \A o \in Objects : vec[o].cap = 0 => vec[o].buf = nullptr

\* a growing Emplace on a, whose block came from b by move assignment, fails
\* in the relocation: new_data has been allocated and is released on the way
\* out, and a still holds its block
C19_Witness ==
    /\ GrowthEmplace /\ Threw /\ last.fail = "ctor_reloc"
    /\ last.allocs = 1 /\ last.frees = 1
    /\ vec["b"].alive /\ vec["b"].buf = nullptr
    /\ vec["a"].buf = 2 /\ Allocated(heap) = {2}

\* the last call was Insert(pos, v[j]) or PushBack(v[j]); j is last.n
AliasInsert == last.name \in {"Insert", "PushBack"} /\ last.n >= 0

\* C20: a returning Insert(pos, v[j]) or PushBack(v[j]) puts at pos a copy of
\* the value v[j] had before the call and keeps every other element, in
\* order, on the growth path and on both in-place paths
C20_AliasedInsert ==
    (AliasInsert /\ Returned) =>
        /\ Size(vec, last.v) = OldSize(last.v) + 1
        /\ NowElems(last.v)[last.pos] = OldElems(last.v)[last.n]
        /\ \A i \in 0..(last.pos - 1) : NowElems(last.v)[i] = OldElems(last.v)[i]
        /\ \A i \in last.pos..(OldSize(last.v) - 1) :
              NowElems(last.v)[i + 1] = OldElems(last.v)[i]

C20_Witness ==
    /\ AliasInsert /\ Returned /\ MidEmplaceInPlace
    /\ OldSize("a") = 3 /\ last.pos = 0 /\ last.n = 2
    /\ OldElems("a")[2] # OldElems("a")[1]
====
